---- MODULE Spec2Model ----
(***************************************************************************)
(* Lifecycle helpers of agstack.infra: setup_db / shutdown_db (database)  *)
(* and setup_es / shotdown_es (search service).  The helpers forward      *)
(* their arguments to an external library; the model records every        *)
(* helper call (dbCalls, esCalls) and every external call it makes        *)
(* (dbExt, esExt), and the external state the calls act on.               *)
(***************************************************************************)
EXTENDS Integers, Sequences, FiniteSets, TLC

\* Bounds of the model.
MaxCalls == 4
MaxStrLen == 1

\* Characters of the argument strings: one ordinary character and two that
\* are delimiters of the URL template.
Alphabet == {"a", "@", "/"}
Strings == UNION {[1..n -> Alphabet] : n \in 0..MaxStrLen}

\* Errors an external operation may raise.
Errors == {"ConnectionError", "TimeoutError"}

VARIABLES
    dbPc,       \* position of the database helper's caller
    dbCalls,    \* helper calls made on the database helper, with outcome
    dbExt,      \* external calls made on the database library
    dbEngine,   \* the database library's process-wide engine (<<>>: none)
    esPc,       \* position of the search helper's caller
    esCalls,    \* helper calls made on the search helper, with outcome
    esExt,      \* external calls made on the connection registry / connections
    esRegistry  \* the registry's connections: alias -> connection id

dbVars == <<dbPc, dbCalls, dbExt, dbEngine>>
esVars == <<esPc, esCalls, esExt, esRegistry>>
vars == <<dbPc, dbCalls, dbExt, dbEngine, esPc, esCalls, esExt, esRegistry>>

Restrict(f, S) == [k \in S |-> f[k]]
EmptyKw == [k \in {} |-> TRUE]
SetLast(log, field, v) ==
    [log EXCEPT ![Len(log)] = [@ EXCEPT ![field] = v]]

(***************************************************************************)
(* The database helper.                                                    *)
(***************************************************************************)
Scheme ==
    <<"p", "o", "s", "t", "g", "r", "e", "s", "q", "l", "+",
      "a", "s", "y", "n", "c", "p", "g", ":", "/", "/">>

\* url = f"postgresql+asyncpg://{username}:{password}@{host}/{database}"
FormatUrlSwapped(username, password, host, database) ==
    Scheme \o username \o <<":">> \o host \o <<"@">> \o password
           \o <<"/">> \o database

FormatUrl(username, password, host, database) ==
    Scheme \o username \o <<":">> \o password \o <<"@">> \o host
           \o <<"/">> \o database

\* The keyword parameters of setup_db that have defaults, and the defaults.
DbOptNames ==
    {"echo", "pool_size", "max_overflow", "pool_timeout", "pool_recycle"}

DbDefaultsSwapped ==
    [echo |-> FALSE, pool_size |-> 10, max_overflow |-> 5,
     pool_timeout |-> 30, pool_recycle |-> 3600]

DbDefaults ==
    [echo |-> FALSE, pool_size |-> 5, max_overflow |-> 10,
     pool_timeout |-> 30, pool_recycle |-> 3600]

\* Python's binding of the keyword arguments supplied by the caller: a named
\* parameter takes the supplied value, else its default; every other name
\* lands in **engine_kwargs.
DbNamed(opts) ==
    [k \in DbOptNames |-> IF k \in DOMAIN opts THEN opts[k] ELSE DbDefaults[k]]

EngineKwargs(opts) == Restrict(opts, (DOMAIN opts) \ DbOptNames)

\* The keyword arguments of the init_db call:
\* echo=echo, pool_size=pool_size, ..., **engine_kwargs.
InitDbKwargs(opts) ==
    [k \in DbOptNames \cup DOMAIN EngineKwargs(opts) |->
        IF k \in DbOptNames THEN DbNamed(opts)[k] ELSE EngineKwargs(opts)[k]]

\* What a helper that awaits a coroutine is doing, given the coroutine's
\* result so far: suspended while it is pending, returned once it completed,
\* ended with the coroutine's error when it raised (there is no try/except).
AwaitNot(r) == "returned"

AwaitSwallow(r) == IF r = "pending" THEN "pending" ELSE "returned"

Await(r) ==
    IF r = "pending" THEN "pending"
    ELSE IF r = "ok" THEN "returned"
    ELSE r

\* External calls made by one setup_db call: await init_db(url, ...).
SetupDbExt(by, a) ==
    <<[fn |-> "init_db", by |-> by,
       pos |-> <<FormatUrl(a.username, a.password, a.host, a.database)>>,
       kw |-> InitDbKwargs(a.opts), conn |-> 0, result |-> "pending"]>>

\* External calls made by one shutdown_db call: await close_db().
ShutdownDbExtTwice(by) ==
    <<[fn |-> "close_db", by |-> by, pos |-> <<>>, kw |-> EmptyKw,
       conn |-> 0, result |-> "pending"],
      [fn |-> "close_db", by |-> by, pos |-> <<>>, kw |-> EmptyKw,
       conn |-> 0, result |-> "pending"]>>

ShutdownDbExt(by) ==
    <<[fn |-> "close_db", by |-> by, pos |-> <<>>, kw |-> EmptyKw,
       conn |-> 0, result |-> "pending"]>>

\* The external library's engine state after init_db / close_db succeeded.
InitDbEffect(engine, e) == <<[url |-> e.pos[1], kw |-> e.kw]>>
CloseDbEffect(engine) == <<>>

CallsLeft == Len(dbCalls) + Len(esCalls) < MaxCalls

SetupDb(a) ==
    /\ dbPc = "idle"
    /\ CallsLeft
    /\ LET by == Len(dbCalls) + 1
           o == Await("pending")
       IN /\ dbExt' = dbExt \o SetupDbExt(by, a)
          /\ dbCalls' = Append(dbCalls,
                 [op |-> "setup_db", args |-> a, outcome |-> o])
          /\ dbPc' = IF o = "pending" THEN "await_init_db" ELSE "idle"
    /\ UNCHANGED <<dbEngine, esVars>>

ResolveInitDb(r) ==
    /\ dbPc = "await_init_db"
    /\ dbExt' = SetLast(dbExt, "result", r)
    /\ dbCalls' = SetLast(dbCalls, "outcome", Await(r))
    /\ dbEngine' = IF r = "ok" THEN InitDbEffect(dbEngine, dbExt[Len(dbExt)])
                   ELSE dbEngine
    /\ dbPc' = "idle"
    /\ UNCHANGED esVars

ShutdownDbGuarded ==
    /\ dbPc = "idle"
    /\ CallsLeft
    /\ dbEngine # <<>>
    /\ LET by == Len(dbCalls) + 1
           o == Await("pending")
       IN /\ dbExt' = dbExt \o ShutdownDbExt(by)
          /\ dbCalls' = Append(dbCalls,
                 [op |-> "shutdown_db", args |-> <<>>, outcome |-> o])
          /\ dbPc' = IF o = "pending" THEN "await_close_db" ELSE "idle"
    /\ UNCHANGED <<dbEngine, esVars>>

ShutdownDbAlsoEs ==
    /\ dbPc = "idle"
    /\ CallsLeft
    /\ LET by == Len(dbCalls) + 1
           o == Await("pending")
       IN /\ dbExt' = dbExt \o ShutdownDbExt(by)
          /\ dbCalls' = Append(dbCalls,
                 [op |-> "shutdown_db", args |-> <<>>, outcome |-> o])
          /\ dbPc' = IF o = "pending" THEN "await_close_db" ELSE "idle"
    /\ esRegistry' = EmptyKw
    /\ UNCHANGED <<dbEngine, esPc, esCalls, esExt>>

ShutdownDb ==
    /\ dbPc = "idle"
    /\ CallsLeft
    /\ LET by == Len(dbCalls) + 1
           o == Await("pending")
       IN /\ dbExt' = dbExt \o ShutdownDbExt(by)
          /\ dbCalls' = Append(dbCalls,
                 [op |-> "shutdown_db", args |-> <<>>, outcome |-> o])
          /\ dbPc' = IF o = "pending" THEN "await_close_db" ELSE "idle"
    /\ UNCHANGED <<dbEngine, esVars>>

ResolveCloseDb(r) ==
    /\ dbPc = "await_close_db"
    /\ dbExt' = SetLast(dbExt, "result", r)
    /\ dbCalls' = SetLast(dbCalls, "outcome", Await(r))
    /\ dbEngine' = IF r = "ok" THEN CloseDbEffect(dbEngine) ELSE dbEngine
    /\ dbPc' = "idle"
    /\ UNCHANGED esVars

(***************************************************************************)
(* The search helper.                                                      *)
(***************************************************************************)
EsOptNames == {"timeout", "sniff_on_start", "sniff_timeout"}

EsDefaults == [timeout |-> 3, sniff_on_start |-> TRUE, sniff_timeout |-> 3]

EsNamed(opts) ==
    [k \in EsOptNames |-> IF k \in DOMAIN opts THEN opts[k] ELSE EsDefaults[k]]

\* The keyword arguments of the create_connection call.
CreateConnectionKwReversedAuth(a) ==
    [hosts |-> a.host,
     verify_certs |-> FALSE,
     request_timeout |-> EsNamed(a.opts).timeout,
     sniff_on_start |-> EsNamed(a.opts).sniff_on_start,
     sniff_timeout |-> EsNamed(a.opts).sniff_timeout,
     sniff_on_node_failure |-> TRUE,
     http_auth |-> <<a.password, a.username>>]

CreateConnectionKw(a) ==
    [hosts |-> a.host,
     verify_certs |-> FALSE,
     request_timeout |-> EsNamed(a.opts).timeout,
     sniff_on_start |-> EsNamed(a.opts).sniff_on_start,
     sniff_timeout |-> EsNamed(a.opts).sniff_timeout,
     sniff_on_node_failure |-> TRUE,
     http_auth |-> <<a.username, a.password>>]

\* The registry: a call that names no alias acts on the default alias;
\* create_connection stores the new connection under the alias, replacing
\* what was there; get_connection returns the stored one (0: none, KeyError).
DefaultAlias == "default"
ResolveAlias(kw) == IF "alias" \in DOMAIN kw THEN kw.alias ELSE DefaultAlias
RegistryCreate(reg, alias, conn) ==
    [k \in (DOMAIN reg) \cup {alias} |-> IF k = alias THEN conn ELSE reg[k]]
RegistryGet(reg, alias) == IF alias \in DOMAIN reg THEN reg[alias] ELSE 0

\* External calls made by one setup_es call whose create_connection ends r.
SetupEsExt(by, a, r) ==
    <<[fn |-> "create_connection", by |-> by, pos |-> <<>>,
       kw |-> CreateConnectionKw(a),
       conn |-> IF r = "ok" THEN by ELSE 0, result |-> r]>>

\* External calls made by one shotdown_es call, given the connection g that
\* get_connection() returns (0: it raised):
\* await async_connections.get_connection().close()
ShotdownEsExtCloseFirst(by, g) ==
    IF g = 0
    THEN <<[fn |-> "get_connection", by |-> by, pos |-> <<>>, kw |-> EmptyKw,
            conn |-> 0, result |-> "KeyError"]>>
    ELSE <<[fn |-> "close", by |-> by, pos |-> <<>>, kw |-> EmptyKw,
            conn |-> g, result |-> "pending"],
           [fn |-> "get_connection", by |-> by, pos |-> <<>>, kw |-> EmptyKw,
            conn |-> g, result |-> "ok"]>>

ShotdownEsExt(by, g) ==
    IF g = 0
    THEN <<[fn |-> "get_connection", by |-> by, pos |-> <<>>, kw |-> EmptyKw,
            conn |-> 0, result |-> "KeyError"]>>
    ELSE <<[fn |-> "get_connection", by |-> by, pos |-> <<>>, kw |-> EmptyKw,
            conn |-> g, result |-> "ok"],
           [fn |-> "close", by |-> by, pos |-> <<>>, kw |-> EmptyKw,
            conn |-> g, result |-> "pending"]>>

\* setup_es has no await: create_connection runs to its end within the call.
SetupEs(a, r) ==
    /\ esPc = "idle"
    /\ CallsLeft
    /\ LET by == Len(esCalls) + 1
           ext == SetupEsExt(by, a, r)
       IN /\ esExt' = esExt \o ext
          /\ esRegistry' =
                 IF r = "ok"
                 THEN RegistryCreate(esRegistry, ResolveAlias(ext[1].kw), by)
                 ELSE esRegistry
          /\ esCalls' = Append(esCalls,
                 [op |-> "setup_es", args |-> a, outcome |-> Await(r)])
    /\ UNCHANGED <<esPc, dbVars>>

ShotdownEs ==
    /\ esPc = "idle"
    /\ CallsLeft
    /\ LET by == Len(esCalls) + 1
           g == RegistryGet(esRegistry, ResolveAlias(EmptyKw))
           ext == ShotdownEsExt(by, g)
           o == Await(ext[Len(ext)].result)
       IN /\ esExt' = esExt \o ext
          /\ esCalls' = Append(esCalls,
                 [op |-> "shotdown_es", args |-> <<>>, outcome |-> o])
          /\ esPc' = IF o = "pending" THEN "await_close" ELSE "idle"
    /\ UNCHANGED <<esRegistry, dbVars>>

ResolveEsCloseRemoving(r) ==
    /\ esPc = "await_close"
    /\ esExt' = SetLast(esExt, "result", r)
    /\ esCalls' = SetLast(esCalls, "outcome", Await(r))
    /\ esPc' = "idle"
    /\ esRegistry' = EmptyKw
    /\ UNCHANGED dbVars

ResolveEsClose(r) ==
    /\ esPc = "await_close"
    /\ esExt' = SetLast(esExt, "result", r)
    /\ esCalls' = SetLast(esCalls, "outcome", Await(r))
    /\ esPc' = "idle"
    /\ UNCHANGED <<esRegistry, dbVars>>

(***************************************************************************)
(* Specifications.                                                         *)
(***************************************************************************)
Init ==
    /\ dbPc = "idle"
    /\ dbCalls = <<>>
    /\ dbExt = <<>>
    /\ dbEngine = <<>>
    /\ esPc = "idle"
    /\ esCalls = <<>>
    /\ esExt = <<>>
    /\ esRegistry = EmptyKw

Results == {"ok"} \cup Errors

\* Arguments of the lifecycle runs.
DbArgs ==
    {[username |-> <<"a">>, password |-> <<"@">>, host |-> <<"a">>,
      database |-> <<"a">>, opts |-> EmptyKw],
     [username |-> <<"a">>, password |-> <<"/">>, host |-> <<"a">>,
      database |-> <<>>, opts |-> [pool_size |-> 20, echo |-> TRUE]]}

EsArgs ==
    {[host |-> <<"a">>, username |-> <<"a">>, password |-> <<"@">>,
      opts |-> EmptyKw],
     [host |-> <<"/">>, username |-> <<"a">>, password |-> <<>>,
      opts |-> [timeout |-> 10]]}

CallSetupDb == \E a \in DbArgs : SetupDb(a)
CallShutdownDb == ShutdownDb
InitDbDone == \E r \in Results : ResolveInitDb(r)
CloseDbDone == \E r \in Results : ResolveCloseDb(r)
CallSetupEs == \E a \in EsArgs, r \in Results : SetupEs(a, r)
CallShotdownEs == ShotdownEs
EsCloseDone == \E r \in Results : ResolveEsClose(r)

Next ==
    \/ CallSetupDb
    \/ CallShutdownDb
    \/ InitDbDone
    \/ CloseDbDone
    \/ CallSetupEs
    \/ CallShotdownEs
    \/ EsCloseDone

Spec == Init /\ [][Next]_vars

\* Arguments of the single-call runs: every string up to MaxStrLen, every
\* choice of supplied and omitted keyword arguments.
DbOptValues ==
    [echo : BOOLEAN, pool_size : {5, 20}, max_overflow : {10, 0},
     pool_timeout : {30, 1}, pool_recycle : {3600, 60},
     pool_pre_ping : {TRUE}]

DbOptsAll ==
    {Restrict(f, S) : f \in DbOptValues,
                      S \in SUBSET (DbOptNames \cup {"pool_pre_ping"})}

EsOptValues ==
    [timeout : {3, 10}, sniff_on_start : BOOLEAN, sniff_timeout : {3, 1}]

EsOptsAll == {Restrict(f, S) : f \in EsOptValues, S \in SUBSET EsOptNames}

NoCalls == Len(dbCalls) + Len(esCalls) = 0

AnySetupDbStrings ==
    /\ NoCalls
    /\ \E u \in Strings, p \in Strings, h \in Strings, d \in Strings :
           SetupDb([username |-> u, password |-> p, host |-> h,
                    database |-> d, opts |-> EmptyKw])

AnySetupDbOpts ==
    /\ NoCalls
    /\ \E o \in DbOptsAll :
           SetupDb([username |-> <<"a">>, password |-> <<"@">>,
                    host |-> <<"/">>, database |-> <<"a">>, opts |-> o])

AnySetupEsStrings ==
    /\ NoCalls
    /\ \E h \in Strings, u \in Strings, p \in Strings, r \in Results :
           SetupEs([host |-> h, username |-> u, password |-> p,
                    opts |-> EmptyKw], r)

AnySetupEsOpts ==
    /\ NoCalls
    /\ \E o \in EsOptsAll, r \in Results :
           SetupEs([host |-> <<"a">>, username |-> <<"a">>,
                    password |-> <<"@">>, opts |-> o], r)

NextArgs ==
    \/ AnySetupDbStrings
    \/ AnySetupDbOpts
    \/ InitDbDone
    \/ AnySetupEsStrings
    \/ AnySetupEsOpts

SpecArgs == Init /\ [][NextArgs]_vars

\* The external calls of a log made by helper call i, in log order.
ExtBy(log, i) == SelectSeq(log, LAMBDA e : e.by = i)

(***************************************************************************)
(* Properties.                                                             *)
(***************************************************************************)
DbCallIds(op) == {i \in 1..Len(dbCalls) : dbCalls[i].op = op}
EsCallIds(op) == {i \in 1..Len(esCalls) : esCalls[i].op = op}
Failed(e) == e.result \notin {"ok", "pending"}

\* The URL template, character by character.
UrlPrefix ==
    <<"p", "o", "s", "t", "g", "r", "e", "s", "q", "l", "+",
      "a", "s", "y", "n", "c", "p", "g", ":", "/", "/">>

UrlIsTemplate(url, a) ==
    LET u == a.username
        p == a.password
        h == a.host
        d == a.database
        atU == 21
        atP == atU + Len(u) + 1
        atH == atP + Len(p) + 1
        atD == atH + Len(h) + 1
    IN /\ Len(url) = atD + Len(d)
       /\ \A j \in 1..21 : url[j] = UrlPrefix[j]
       /\ \A j \in 1..Len(u) : url[atU + j] = u[j]
       /\ url[atP] = ":"
       /\ \A j \in 1..Len(p) : url[atP + j] = p[j]
       /\ url[atH] = "@"
       /\ \A j \in 1..Len(h) : url[atH + j] = h[j]
       /\ url[atD] = "/"
       /\ \A j \in 1..Len(d) : url[atD + j] = d[j]

\* C1: every setup_db call makes one init_db call whose only positional
\* argument is the URL "postgresql+asyncpg://" username ":" password "@" host
\* "/" database, character for character, and whose keyword arguments carry
\* every supplied value (named or extra) unchanged and nothing else besides
\* the five pool parameters.
C1_UrlAndOptionsForwarded ==
    \A i \in DbCallIds("setup_db") :
        LET ext == ExtBy(dbExt, i)
            a == dbCalls[i].args
        IN /\ Len(ext) = 1
           /\ ext[1].fn = "init_db"
           /\ Len(ext[1].pos) = 1
           /\ UrlIsTemplate(ext[1].pos[1], a)
           /\ DOMAIN ext[1].kw = DbOptNames \cup DOMAIN a.opts
           /\ \A k \in DOMAIN a.opts : ext[1].kw[k] = a.opts[k]

C1_Witness ==
    \E i \in DbCallIds("setup_db") :
        /\ dbCalls[i].args.password = <<"@">>
        /\ dbCalls[i].args.host = <<"/">>
        /\ DOMAIN dbCalls[i].args.opts = {"pool_size", "echo", "pool_pre_ping"}
        /\ dbCalls[i].args.opts.pool_size = 20
        /\ dbCalls[i].outcome = "returned"

\* C2: every setup_es call makes one create_connection call, with no
\* positional argument, whose keyword arguments are exactly hosts=host,
\* request_timeout=timeout, sniff_on_start, sniff_timeout,
\* http_auth=(username, password), verify_certs=False and
\* sniff_on_node_failure=True.
C2_EsArgumentsForwarded ==
    \A i \in EsCallIds("setup_es") :
        LET ext == ExtBy(esExt, i)
            a == esCalls[i].args
        IN /\ Len(ext) = 1
           /\ ext[1].fn = "create_connection"
           /\ ext[1].pos = <<>>
           /\ DOMAIN ext[1].kw =
                  {"hosts", "verify_certs", "request_timeout", "sniff_on_start",
                   "sniff_timeout", "sniff_on_node_failure", "http_auth"}
           /\ ext[1].kw.hosts = a.host
           /\ ext[1].kw.http_auth = <<a.username, a.password>>
           /\ ext[1].kw.verify_certs = FALSE
           /\ ext[1].kw.sniff_on_node_failure = TRUE
           /\ "timeout" \in DOMAIN a.opts
                  => ext[1].kw.request_timeout = a.opts.timeout
           /\ "sniff_on_start" \in DOMAIN a.opts
                  => ext[1].kw.sniff_on_start = a.opts.sniff_on_start
           /\ "sniff_timeout" \in DOMAIN a.opts
                  => ext[1].kw.sniff_timeout = a.opts.sniff_timeout

C2_Witness ==
    \E i \in EsCallIds("setup_es") :
        /\ esCalls[i].args.username = <<"a">>
        /\ esCalls[i].args.password = <<"@">>
        /\ DOMAIN esCalls[i].args.opts = EsOptNames
        /\ esCalls[i].args.opts.timeout = 10
        /\ esCalls[i].args.opts.sniff_on_start = FALSE
        /\ esCalls[i].outcome = "returned"

\* C3: an omitted optional argument reaches the external call with its
\* documented default (echo=False, pool_size=5, max_overflow=10,
\* pool_timeout=30, pool_recycle=3600, no extra option; request_timeout=3,
\* sniff_on_start=True, sniff_timeout=3), and a supplied one with the
\* supplied value.
C3_DefaultsWhenOmitted ==
    /\ \A i \in DbCallIds("setup_db") :
           LET kw == ExtBy(dbExt, i)[1].kw
               o == dbCalls[i].args.opts
           IN /\ "echo" \notin DOMAIN o => kw.echo = FALSE
              /\ "pool_size" \notin DOMAIN o => kw.pool_size = 5
              /\ "max_overflow" \notin DOMAIN o => kw.max_overflow = 10
              /\ "pool_timeout" \notin DOMAIN o => kw.pool_timeout = 30
              /\ "pool_recycle" \notin DOMAIN o => kw.pool_recycle = 3600
              /\ DOMAIN o = {} => DOMAIN kw = DbOptNames
              /\ \A k \in DOMAIN o : kw[k] = o[k]
    /\ \A i \in EsCallIds("setup_es") :
           LET kw == ExtBy(esExt, i)[1].kw
               o == esCalls[i].args.opts
           IN /\ kw.request_timeout =
                     IF "timeout" \in DOMAIN o THEN o.timeout ELSE 3
              /\ kw.sniff_on_start =
                     IF "sniff_on_start" \in DOMAIN o THEN o.sniff_on_start
                     ELSE TRUE
              /\ kw.sniff_timeout =
                     IF "sniff_timeout" \in DOMAIN o THEN o.sniff_timeout ELSE 3

C3_Witness ==
    \E i \in DbCallIds("setup_db") :
        /\ DOMAIN dbCalls[i].args.opts = {"pool_timeout"}
        /\ dbCalls[i].args.opts.pool_timeout = 1
        /\ ExtBy(dbExt, i)[1].fn = "init_db"
        /\ ExtBy(dbExt, i)[1].result = "ok"

\* C4: every shutdown_db call makes exactly one external call, close_db with
\* no arguments, and so the number of close_db calls equals the number of
\* shutdown_db calls.
C4_OneCloseDbPerShutdown ==
    /\ \A i \in DbCallIds("shutdown_db") :
           LET ext == ExtBy(dbExt, i)
           IN /\ Len(ext) = 1
              /\ ext[1].fn = "close_db"
              /\ ext[1].pos = <<>>
              /\ DOMAIN ext[1].kw = {}
    /\ Cardinality({n \in 1..Len(dbExt) : dbExt[n].fn = "close_db"})
           = Cardinality(DbCallIds("shutdown_db"))

C4_Witness ==
    /\ Cardinality(DbCallIds("shutdown_db")) >= 2
    /\ Cardinality(DbCallIds("setup_db")) >= 1
    /\ dbCalls[1].op = "shutdown_db"
    /\ dbPc = "idle"

\* C5: every shotdown_es call first calls get_connection naming no alias and,
\* when that returns a connection, then calls close once on that very
\* connection and on no other; nothing precedes the fetch.
C5_FetchThenCloseOnce ==
    \A i \in EsCallIds("shotdown_es") :
        LET ext == ExtBy(esExt, i)
        IN /\ Len(ext) \in {1, 2}
           /\ ext[1].fn = "get_connection"
           /\ ext[1].pos = <<>>
           /\ "alias" \notin DOMAIN ext[1].kw
           /\ Len(ext) = 2 <=> ext[1].result = "ok"
           /\ Len(ext) = 2 =>
                  /\ ext[2].fn = "close"
                  /\ ext[2].conn = ext[1].conn
                  /\ ext[2].conn # 0

C5_Witness ==
    \E i \in EsCallIds("shotdown_es") :
        /\ esCalls[i].outcome = "returned"
        /\ Len(ExtBy(esExt, i)) = 2

\* C6: a helper call that awaits an external coroutine has not ended while
\* that coroutine is pending: its caller is suspended in the call, and a call
\* that has ended has no pending external call.
C6_ReturnsAfterAwaited ==
    /\ \A n \in 1..Len(dbExt) :
           dbExt[n].result = "pending" =>
               /\ dbCalls[dbExt[n].by].outcome = "pending"
               /\ dbExt[n].by = Len(dbCalls)
               /\ dbPc = (IF dbExt[n].fn = "init_db" THEN "await_init_db"
                          ELSE "await_close_db")
    /\ \A n \in 1..Len(esExt) :
           esExt[n].result = "pending" =>
               /\ esExt[n].fn = "close"
               /\ esCalls[esExt[n].by].outcome = "pending"
               /\ esExt[n].by = Len(esCalls)
               /\ esPc = "await_close"

C6_Witness ==
    /\ dbPc = "await_close_db"
    /\ esPc = "await_close"
    /\ \E i \in DbCallIds("setup_db") : dbCalls[i].outcome = "returned"

\* C7: when an external call of a helper call fails, the helper call ends
\* with that same error, the failed call is the last external call it makes
\* and the only one of that operation; a call that returned normally had no
\* failed external call.
FailurePropagates(calls, log) ==
    \A n \in 1..Len(log) :
        Failed(log[n]) =>
            LET i == log[n].by
                ext == ExtBy(log, i)
            IN /\ calls[i].outcome = log[n].result
               /\ ext[Len(ext)] = log[n]
               /\ Cardinality({m \in 1..Len(ext) : ext[m].fn = log[n].fn}) = 1

C7_ErrorsPropagateUnmodified ==
    /\ FailurePropagates(dbCalls, dbExt)
    /\ FailurePropagates(esCalls, esExt)

C7_Witness ==
    /\ \E i \in DbCallIds("setup_db") : dbCalls[i].outcome = "TimeoutError"
    /\ \E i \in DbCallIds("shutdown_db") :
           dbCalls[i].outcome = "ConnectionError"
    /\ \E i \in EsCallIds("shotdown_es") : esCalls[i].outcome = "KeyError"
    /\ \E i \in EsCallIds("setup_es") : esCalls[i].outcome = "ConnectionError"

\* C8: whatever calls came before, an idle helper accepts every call, and
\* every call makes the external call of its operation; two calls of the same
\* operation with the same arguments make the same first external call.
FirstFn(op) ==
    CASE op = "setup_db" -> "init_db"
      [] op = "shutdown_db" -> "close_db"
      [] op = "setup_es" -> "create_connection"
      [] op = "shotdown_es" -> "get_connection"

SameFirstCall(calls, log) ==
    \A i \in 1..Len(calls) :
        /\ Len(ExtBy(log, i)) >= 1
        /\ ExtBy(log, i)[1].fn = FirstFn(calls[i].op)
        /\ \A j \in 1..Len(calls) :
               (calls[j].op = calls[i].op /\ calls[j].args = calls[i].args) =>
                   /\ ExtBy(log, j)[1].pos = ExtBy(log, i)[1].pos
                   /\ ExtBy(log, j)[1].kw = ExtBy(log, i)[1].kw

C8_NoOrderingEnforced ==
    /\ (dbPc = "idle" /\ CallsLeft) =>
           (ENABLED CallSetupDb /\ ENABLED CallShutdownDb)
    /\ (esPc = "idle" /\ CallsLeft) =>
           (ENABLED CallSetupEs /\ ENABLED CallShotdownEs)
    /\ SameFirstCall(dbCalls, dbExt)
    /\ SameFirstCall(esCalls, esExt)

C8_Witness ==
    /\ Len(dbCalls) = 3
    /\ dbCalls[1].op = "shutdown_db"
    /\ dbCalls[2].op = "setup_db"
    /\ dbCalls[3].op = "setup_db"
    /\ Len(esCalls) = 1
    /\ esCalls[1].op = "shotdown_es"

\* C9: every step of a database helper operation leaves the search helper's
\* calls, the registry and its connections unchanged, and every step of a
\* search helper operation leaves the database helper's calls and the engine
\* unchanged.
C9_HelpersIndependent ==
    [][(dbVars' = dbVars) \/ (esVars' = esVars)]_vars

C9_Witness ==
    /\ dbPc = "await_init_db"
    /\ esPc = "await_close"
    /\ Len(dbCalls) = 2
    /\ Len(esCalls) = 2

\* C10: setup_es names no alias, so every connection goes to the default
\* slot; a close made by shotdown_es is always on the connection of the
\* latest successful setup_es (an earlier one is never closed once replaced);
\* the slot stays filled after shotdown_es, so a shotdown_es that follows
\* another closes the same connection again.
LatestCreated(n) ==
    LET made == {m \in 1..(n - 1) :
                    esExt[m].fn = "create_connection" /\ esExt[m].result = "ok"}
    IN IF made = {} THEN 0
       ELSE esExt[CHOOSE m \in made : \A k \in made : k <= m].conn

====
